---- MODULE Spec2Model ----
(***************************************************************************)
(* TiledMap::from_bytes (src/src/tiled_map.rs): one forward pass over the  *)
(* events of a quick_xml Reader, with a nested loop for the body of a      *)
(* "layer" element.  The decoder's local variables are the state; every    *)
(* match arm of the two loops is an action; the next event of the reader   *)
(* is the input of a step.  A panic (unwrap / expect / panic!) ends the    *)
(* call without a value.                                                    *)
(***************************************************************************)
EXTENDS Integers, Sequences, FiniteSets, TLC

\* ------------------------------------------------------------------------
\* Option / Result values: None and Err are the empty tuple, Some(x) and
\* Ok(x) the 1-tuple.
None == <<>>
Some(x) == <<x>>
IsSome(o) == o # <<>>
Unwrap(o) == o[1]

\* ------------------------------------------------------------------------
\* Bounds of the model.
MaxLayers == 1
MaxTilesets == 1
MaxTiles == 5
MaxDepth == 1
MaxDoc == 6
MaxTilesetDoc == 3

\* Program constants: the bytes of a u32 word and the values of a byte.
WordBytes == 4
ByteModulus == 256

\* ------------------------------------------------------------------------
\* Texts whose characters matter are sequences of one-character strings.
DigitChars == <<"0", "1", "2", "3", "4", "5", "6", "7", "8", "9">>

IsDigit(c) == \E i \in 1..Len(DigitChars) : DigitChars[i] = c

DigitVal(c) == (CHOOSE i \in 1..Len(DigitChars) : DigitChars[i] = c) - 1

\* The marker of a byte that is not valid UTF-8.
BadUtf8Char == "\\xFF"

\* std::str::from_utf8(&a.value): Err when a byte is not UTF-8.
FromUtf8(raw) ==
  IF \E i \in 1..Len(raw) : raw[i] = BadUtf8Char THEN None ELSE Some(raw)

\* u32::MAX in decimal.  The values of the model are TLC integers, below
\* 2^31: the limit of a u32 is therefore compared digit by digit, and the
\* documents of the model hold no number in 2^31 .. 2^32 - 1.
U32MaxDigits == <<"4", "2", "9", "4", "9", "6", "7", "2", "9", "5">>

RECURSIVE StripZeros(_)
StripZeros(s) ==
  IF s # <<>> /\ Head(s) = "0" THEN StripZeros(Tail(s)) ELSE s

\* a <= b for two digit sequences of the same length.
RECURSIVE DigitsLeq(_, _)
DigitsLeq(a, b) ==
  IF a = <<>> THEN TRUE
  ELSE IF DigitVal(Head(a)) < DigitVal(Head(b)) THEN TRUE
  ELSE IF DigitVal(Head(a)) > DigitVal(Head(b)) THEN FALSE
  ELSE DigitsLeq(Tail(a), Tail(b))

\* checked_mul(10) / checked_add(digit) overflow somewhere along s exactly
\* when the number s denotes exceeds u32::MAX.
ExceedsU32(s) ==
  LET z == StripZeros(s)
  IN \/ Len(z) > Len(U32MaxDigits)
     \/ Len(z) = Len(U32MaxDigits) /\ ~DigitsLeq(z, U32MaxDigits)

RECURSIVE DigitsValue(_, _)
DigitsValue(s, acc) ==
  IF s = <<>> THEN acc
  ELSE DigitsValue(Tail(s), acc * 10 + DigitVal(Head(s)))

\* str.parse::<u32>(): an optional "+", then one or more decimal digits, the
\* value at most u32::MAX; anything else is Err.
ParseU32(s) ==
  LET body == IF s # <<>> /\ Head(s) = "+" THEN Tail(s) ELSE s
  IN IF body = <<>> THEN None
     ELSE IF \E i \in 1..Len(body) : ~IsDigit(body[i]) THEN None
     ELSE IF ExceedsU32(body) THEN None
     ELSE Some(DigitsValue(body, 0))

\* The byte of weight 256^k of v.
RECURSIVE ByteOf(_, _)
ByteOf(v, k) ==
  IF k = 0 THEN v % ByteModulus ELSE ByteOf(v \div ByteModulus, k - 1)

\* The sum of the byte products of weight 256^k in a * b.
ColumnSum(a, b, k) ==
  LET Term(i) == IF k - i \in 0..(WordBytes - 1)
                 THEN ByteOf(a, i) * ByteOf(b, k - i) ELSE 0
  IN Term(0) + Term(1) + Term(2) + Term(3)

\* width * height on u32, computed byte by byte so that no intermediate
\* value leaves the integers of the model: overflow tells whether the true
\* product exceeds u32::MAX, wrapped is the product modulo 2^32.
MulU32(a, b) ==
  LET t0 == ColumnSum(a, b, 0)
      t1 == ColumnSum(a, b, 1) + (t0 \div ByteModulus)
      t2 == ColumnSum(a, b, 2) + (t1 \div ByteModulus)
      t3 == ColumnSum(a, b, 3) + (t2 \div ByteModulus)
      high == (t3 \div ByteModulus) + ColumnSum(a, b, 4)
              + ColumnSum(a, b, 5) + ColumnSum(a, b, 6)
  IN [overflow |-> high > 0,
      wrapped |-> (t0 % ByteModulus) + ByteModulus * ((t1 % ByteModulus)
                  + ByteModulus * ((t2 % ByteModulus)
                  + ByteModulus * (t3 % ByteModulus)))]

\* str.parse::<bool>(): exactly "true" or "false".
ParseBool(s) ==
  IF s = <<"t", "r", "u", "e">> THEN Some(TRUE)
  ELSE IF s = <<"f", "a", "l", "s", "e">> THEN Some(FALSE)
  ELSE None

\* ------------------------------------------------------------------------
\* base64 (the standard alphabet, "=" padding).
B64Chars ==
  <<"A", "B", "C", "D", "E", "F", "G", "H", "I", "J", "K", "L", "M",
    "N", "O", "P", "Q", "R", "S", "T", "U", "V", "W", "X", "Y", "Z",
    "a", "b", "c", "d", "e", "f", "g", "h", "i", "j", "k", "l", "m",
    "n", "o", "p", "q", "r", "s", "t", "u", "v", "w", "x", "y", "z",
    "0", "1", "2", "3", "4", "5", "6", "7", "8", "9", "+", "/">>

IsB64(c) == \E i \in 1..Len(B64Chars) : B64Chars[i] = c

B64Val(c) == (CHOOSE i \in 1..Len(B64Chars) : B64Chars[i] = c) - 1

RECURSIVE StripPad(_)
StripPad(s) ==
  IF s # <<>> /\ s[Len(s)] = "=" THEN StripPad(SubSeq(s, 1, Len(s) - 1)) ELSE s

\* The bytes of the complete 4-symbol groups of s, then of its last 2 or 3
\* symbols; None when the unused low bits of the last symbol are not zero.
RECURSIVE B64Groups(_)
B64Groups(s) ==
  IF Len(s) = 0 THEN Some(<<>>)
  ELSE IF Len(s) = 2
    THEN LET n == B64Val(s[1]) * 64 + B64Val(s[2])
         IN IF n % 16 # 0 THEN None ELSE Some(<<n \div 16>>)
  ELSE IF Len(s) = 3
    THEN LET n == B64Val(s[1]) * 4096 + B64Val(s[2]) * 64 + B64Val(s[3])
         IN IF n % 4 # 0 THEN None
            ELSE Some(<<n \div 1024, (n \div 4) % 256>>)
  ELSE LET n == B64Val(s[1]) * 262144 + B64Val(s[2]) * 4096
                  + B64Val(s[3]) * 64 + B64Val(s[4])
           rest == B64Groups(SubSeq(s, 5, Len(s)))
       IN IF rest = None THEN None
          ELSE Some(<<n \div 65536, (n \div 256) % 256, n % 256>> \o Unwrap(rest))

\* base64::decode(text): Err on a symbol outside the alphabet, on misplaced
\* padding, on a length of 1 mod 4 and on non-zero trailing bits.
Base64Decode(text) ==
  LET body == StripPad(text)
      pad == Len(text) - Len(body)
  IN IF \E i \in 1..Len(body) : ~IsB64(body[i]) THEN None
     ELSE IF pad > 2 \/ (pad > 0 /\ Len(text) % 4 # 0) THEN None
     ELSE IF Len(body) % 4 = 1 THEN None
     ELSE B64Groups(body)

\* The base64 text of a byte sequence (the inverse direction, used to build
\* the payload texts of the documents).
RECURSIVE Base64Encode(_)
Base64Encode(bytes) ==
  IF Len(bytes) = 0 THEN <<>>
  ELSE IF Len(bytes) = 1
    THEN LET n == bytes[1] * 16
         IN <<B64Chars[(n \div 64) + 1], B64Chars[(n % 64) + 1], "=", "=">>
  ELSE IF Len(bytes) = 2
    THEN LET n == (bytes[1] * 256 + bytes[2]) * 4
         IN <<B64Chars[(n \div 4096) + 1], B64Chars[((n \div 64) % 64) + 1],
              B64Chars[(n % 64) + 1], "=">>
  ELSE LET n == bytes[1] * 65536 + bytes[2] * 256 + bytes[3]
       IN <<B64Chars[(n \div 262144) + 1], B64Chars[((n \div 4096) % 64) + 1],
            B64Chars[((n \div 64) % 64) + 1], B64Chars[(n % 64) + 1]>>
          \o Base64Encode(SubSeq(bytes, 4, Len(bytes)))

\* The four little-endian bytes of a u32.
ToLeBytes(v) ==
  <<ByteOf(v, 0), ByteOf(v, 1), ByteOf(v, 2), ByteOf(v, 3)>>

RECURSIVE EncodeTiles(_)
EncodeTiles(t) ==
  IF t = <<>> THEN <<>> ELSE ToLeBytes(Head(t)) \o EncodeTiles(Tail(t))

\* The big-endian reading of a word, which the decoder does not use: the
\* last byte is the least significant.
RECURSIVE FromBeBytes(_)
FromBeBytes(b) ==
  IF b = <<>> THEN 0 ELSE b[Len(b)] + ByteModulus * FromBeBytes(SubSeq(b, 1, Len(b) - 1))

\* u32::from_le_bytes: the first byte is the least significant.
RECURSIVE FromLeBytes(_)
FromLeBytes(b) ==
  IF b = <<>> THEN 0 ELSE Head(b) + ByteModulus * FromLeBytes(Tail(b))

\* Cursor::read_u32::<LittleEndian>() at byte offset pos: Err (UnexpectedEof)
\* when fewer than four bytes are left.
ReadU32LE(bytes, pos) ==
  IF pos + WordBytes > Len(bytes) THEN None
  ELSE Some(FromLeBytes(SubSeq(bytes, pos + 1, pos + WordBytes)))

\* The words of bytes read from the last to the first, which the decoder
\* does not do.
ReadTilesBackwards(bytes, count) ==
  IF count * WordBytes > Len(bytes) THEN None
  ELSE Some([i \in 1..count |-> Unwrap(ReadU32LE(bytes, (count - i) * WordBytes))])

\* for _ in 0..count { data.push(rdr.read_u32::<LittleEndian>().unwrap()) }:
\* the first count words of bytes, or None when a read fails (the unwrap
\* panics).  The cursor advances by four bytes per read, so the loop fails
\* exactly when count words do not fit.
ReadTiles(bytes, count) ==
  IF count * WordBytes > Len(bytes) THEN None
  ELSE Some([i \in 1..count |-> Unwrap(ReadU32LE(bytes, (i - 1) * WordBytes))])

\* text.unescape_and_decode_without_bom(&reader): Err on a "&" that starts no
\* entity (the texts of the model hold no complete entity) and on a byte
\* that is not UTF-8; any other text is returned as it is.
UnescapeAndDecode(text) ==
  IF \E i \in 1..Len(text) : text[i] = "&" THEN None ELSE FromUtf8(text)

\* ------------------------------------------------------------------------
\* The documents of the model: what the events of the reader may carry.
Opt(S) == {None} \cup {Some(x) : x \in S}

BadUtf8Text == <<BadUtf8Char>>
Base64Name == <<"b", "a", "s", "e", "6", "4">>
CsvName == <<"c", "s", "v">>
TrueText == <<"t", "r", "u", "e">>
FalseText == <<"f", "a", "l", "s", "e">>

DimTexts == {<<"1">>, <<"2">>, <<"x">>}
TileDimTexts == {<<"1", "6">>, <<"x">>}
GidTexts == {<<"1">>, <<"x">>}
SourceTexts == {<<"a", ".", "t", "s", "x">>}
NameTexts == {<<"a">>, BadUtf8Text}
VisibleTexts == {TrueText, FalseText, <<"1">>}
EncodingTexts == {Base64Name, CsvName, BadUtf8Text}

\* start, start + 1, ..., start + n - 1.
Run(start, n) == [i \in 1..n |-> start + i - 1]

TileStarts == {1}

\* A tile whose four bytes differ: 4, 3, 2, 1 from the least significant.
SampleTiles == {<<16909060>>}

\* The trailing bytes that follow the last complete word of a payload.
ExtraBytes(k) == [i \in 1..k |-> 7]

\* The texts of a data element: the base64 text of 0..MaxTiles words and of
\* 0..3 bytes after them, and texts that do not unescape or decode.  The
\* reader trims text (trim_text(true)) and delivers no empty text.
GoodPayloadTexts ==
  {Base64Encode(EncodeTiles(Run(start, n)) \o ExtraBytes(k)) :
     start \in TileStarts, n \in 0..MaxTiles, k \in 0..(WordBytes - 1)}
  \cup {Base64Encode(EncodeTiles(t)) : t \in SampleTiles}

BadPayloadTexts ==
  {<<"&">>, <<"A">>, <<"*", "A", "A", "A">>, <<"A", "B", "=", "=">>}

PayloadTexts == (GoodPayloadTexts \cup BadPayloadTexts) \ {<<>>}

\* ------------------------------------------------------------------------
\* The state: the local variables of from_bytes, the reader's position and
\* the outcome of the call.
VARIABLES
  pc,                \* "outer", "inner" (the loop at line 143), "returned", "panicked"
  map_width, map_height, map_tilewidth, map_tileheight,
  tilesets, layers,
  name, visible, width, height, encoding, state_is_in_data,
  open_data,         \* the "data" elements the reader has open inside the layer
  at_eof,            \* the reader has delivered Eof
  panic,             \* Some([line, msg]) once the call has panicked
  result,            \* Some(TiledMap) once the call has returned
  reader,            \* "any": the document is arbitrary; "recording" and "replaying":
                     \* the first and the second of two calls on one document;
                     \* "tileset": the reader of TiledTileset::from_bytes
  doc,               \* the events the first call has read, then those the second
                     \* call has yet to read
  first,             \* Some(outcome of the first call) during the second
  handled,           \* history: the event of the last step, when it opened a
                     \* "tileset" or was a text that reached the "base64" arm
  declared           \* history: the (firstgid, source) pairs of the "tileset" elements
                     \* opened so far that carry both

decoderVars ==
  <<pc, map_width, map_height, map_tilewidth, map_tileheight, tilesets, layers,
    name, visible, width, height, encoding, state_is_in_data, open_data,
    at_eof, panic, result>>

readerVars == <<reader, doc, first>>

vars == <<decoderVars, readerVars, handled, declared>>

mapVars == <<map_width, map_height, map_tilewidth, map_tileheight>>
layerVars == <<name, visible, width, height, encoding, state_is_in_data, open_data>>

UnwrapErrMsg == "called Result::unwrap() on an Err value"
UnwrapNoneMsg == "called Option::unwrap() on a None value"

PanicAt(line, msg) == [line |-> line, msg |-> msg]

\* The locals of the "layer" arm before the arm is entered and after it is
\* left.
NoLayerLocals ==
  /\ name' = None /\ visible' = TRUE /\ width' = None /\ height' = None
  /\ encoding' = None /\ state_is_in_data' = FALSE
  /\ open_data' = 0

\* The locals of from_bytes once the reader is built (lines 45-57), before
\* the first event.
Entry ==
  /\ pc = "outer"
  /\ map_width = None /\ map_height = None
  /\ map_tilewidth = None /\ map_tileheight = None
  /\ tilesets = <<>> /\ layers = <<>>
  /\ name = None /\ visible = TRUE /\ width = None /\ height = None
  /\ encoding = None /\ state_is_in_data = FALSE
  /\ open_data = 0
  /\ at_eof = FALSE
  /\ panic = None
  /\ result = None
  /\ handled = None
  /\ declared = <<>>

\* One call on an arbitrary document.
Init ==
  /\ Entry
  /\ reader = "any" /\ doc = <<>> /\ first = None

\* A panic unwinds the call: every local is dropped and nothing is
\* returned.
Panics(p) ==
  /\ pc' = "panicked"
  /\ panic' = Some(p)
  /\ map_width' = None /\ map_height' = None
  /\ map_tilewidth' = None /\ map_tileheight' = None
  /\ tilesets' = <<>> /\ layers' = <<>>
  /\ NoLayerLocals
  /\ UNCHANGED <<at_eof, result>>

\* ------------------------------------------------------------------------
\* The attributes of an element, in document order: e.attributes() yields
\* Ok(attribute) or, on malformed markup and on a repeated key, Err.
Attr(k, v) == [err |-> FALSE, key |-> k, value |-> v]
ErrAttr == [err |-> TRUE, key |-> "", value |-> <<>>]
OptAttr(k, o) == IF o = None THEN <<>> ELSE <<Attr(k, Unwrap(o))>>

\* The attributes of a map 65536 wide and 65536 high: each dimension is a
\* u32, their product 2^32 is not.
WideText == <<"6", "5", "5", "3", "6">>

WideMapAttrs ==
  <<Attr("width", WideText), Attr("height", WideText),
    Attr("tilewidth", <<"1", "6">>), Attr("tileheight", <<"1", "6">>)>>

\* The attributes of a map whose tiles are declared 0 wide.
ZeroTileMapAttrs ==
  <<Attr("width", <<"1">>), Attr("height", <<"1">>),
    Attr("tilewidth", <<"0">>), Attr("tileheight", <<"1", "6">>)>>

\* The attributes of a layer whose name is declared empty.
EmptyNameLayerAttrs == <<Attr("name", <<>>)>>

\* The attribute lists of the documents of the model: each key absent or
\* present once, in the order Tiled writes them, or a list that is an Err.
MapAttrs ==
  {OptAttr("width", w) \o OptAttr("height", h) \o OptAttr("tilewidth", tw)
     \o OptAttr("tileheight", th) :
     w \in Opt(DimTexts), h \in Opt(DimTexts),
     tw \in Opt(TileDimTexts), th \in Opt(TileDimTexts)}
  \cup {<<ErrAttr>>, WideMapAttrs}

TilesetAttrs ==
  {OptAttr("firstgid", g) \o OptAttr("source", src) :
     g \in Opt(GidTexts), src \in Opt(SourceTexts)}
  \cup {<<ErrAttr>>}

LayerAttrs ==
  {OptAttr("name", n) \o OptAttr("visible", v) :
     n \in Opt(NameTexts), v \in Opt(VisibleTexts)}
  \cup {<<ErrAttr>>}

DataAttrs ==
  {OptAttr("encoding", enc) : enc \in Opt(EncodingTexts)} \cup {<<ErrAttr>>}

\* ------------------------------------------------------------------------
\* The reader.  An event is named after the arm that handles it and carries
\* the attributes or the text the arm reads.
Event(kind, arg) == [kind |-> kind, arg |-> arg]

\* The documents decoded twice: a few attribute lists and texts of each
\* kind, at most MaxDoc events long.
ReplayMapAttrs ==
  {<<Attr("width", <<"1">>), Attr("height", <<"1">>),
     Attr("tilewidth", <<"1", "6">>), Attr("tileheight", <<"1", "6">>)>>,
   <<Attr("width", <<"2">>)>>,
   <<Attr("width", <<"x">>)>>}

ReplayTilesetAttrs ==
  {<<Attr("firstgid", <<"1">>), Attr("source", <<"a", ".", "t", "s", "x">>)>>}

ReplayLayerAttrs == {<<Attr("name", <<"a">>)>>, <<>>}

ReplayDataAttrs ==
  {<<Attr("encoding", Base64Name)>>, <<Attr("encoding", CsvName)>>, <<>>}

ReplayTexts == {Base64Encode(EncodeTiles(<<1>>)), <<"A">>}

InReplayDocs(e) ==
  IF e.kind = "MapStart" THEN e.arg \in ReplayMapAttrs
  ELSE IF e.kind = "TilesetStart" THEN e.arg \in ReplayTilesetAttrs
  ELSE IF e.kind = "LayerStart" THEN e.arg \in ReplayLayerAttrs
  ELSE IF e.kind = "DataStart" THEN e.arg \in ReplayDataAttrs
  ELSE IF e.kind = "InnerText" THEN e.arg \in ReplayTexts
  ELSE TRUE

\* The reader, built on the bytes of the call (lines 45-51), delivers e as
\* its next event: any event when the document is arbitrary; an event that
\* is then recorded during the first of two calls; the next recorded event
\* during the second.
Delivers(e) ==
  IF reader = "any" THEN UNCHANGED readerVars
  ELSE IF reader = "recording"
    THEN /\ Len(doc) < MaxDoc
         /\ InReplayDocs(e)
         /\ doc' = Append(doc, e)
         /\ UNCHANGED <<reader, first>>
  ELSE /\ doc # <<>>
       /\ e.kind = Head(doc).kind
       /\ e.arg = Head(doc).arg
       /\ doc' = Tail(doc)
       /\ UNCHANGED <<reader, first>>

\* `let str = from_utf8(&a.value).unwrap(); x = Some(str.parse::<u32>().unwrap())`
\* in a record m of locals: the field set, or the panic of either unwrap.
SetU32(m, field, a, utf8Line, parseLine) ==
  IF FromUtf8(a.value) = None
    THEN [m EXCEPT !.panic = Some(PanicAt(utf8Line, UnwrapErrMsg))]
  ELSE IF ParseU32(Unwrap(FromUtf8(a.value))) = None
    THEN [m EXCEPT !.panic = Some(PanicAt(parseLine, UnwrapErrMsg))]
  ELSE [m EXCEPT ![field] = ParseU32(Unwrap(FromUtf8(a.value)))]

\* `let str = from_utf8(&a.value).unwrap(); x = Some(str.to_string())`.
SetString(m, field, a, utf8Line) ==
  IF FromUtf8(a.value) = None
    THEN [m EXCEPT !.panic = Some(PanicAt(utf8Line, UnwrapErrMsg))]
  ELSE [m EXCEPT ![field] = FromUtf8(a.value)]

\* ------------------------------------------------------------------------
\* The outer loop (line 60).  The reader delivers nothing after Eof.

\* The attribute loop of the "map" arm (lines 64-85) on the locals
\* m = [panic, map_height, map_width, map_tileheight, map_tilewidth]; the
\* loop ends at the first panic.
RECURSIVE MapAttrLoop(_, _)
MapAttrLoop(attrs, m) ==
  IF attrs = <<>> \/ m.panic # None THEN m
  ELSE LET a == Head(attrs)
       IN MapAttrLoop(Tail(attrs),
            IF a.err THEN [m EXCEPT !.panic = Some(PanicAt(65, UnwrapErrMsg))]
            ELSE IF a.key = "height" THEN SetU32(m, "map_height", a, 68, 69)
            ELSE IF a.key = "width" THEN SetU32(m, "map_width", a, 72, 73)
            ELSE IF a.key = "tileheight" THEN SetU32(m, "map_tileheight", a, 76, 77)
            ELSE IF a.key = "tilewidth" THEN SetU32(m, "map_tilewidth", a, 80, 81)
            ELSE m)

\* Ok(Event::Start) of "map" (lines 63-86).
MapStart(attrs) ==
  /\ pc = "outer" /\ ~at_eof
  /\ Delivers(Event("MapStart", attrs))
  /\ handled' = None
  /\ UNCHANGED declared
  /\ LET m == MapAttrLoop(attrs,
                  [panic |-> None, map_height |-> map_height, map_width |-> map_width,
                   map_tileheight |-> map_tileheight, map_tilewidth |-> map_tilewidth])
       IN IF m.panic # None THEN Panics(Unwrap(m.panic))
          ELSE /\ map_height' = m.map_height
               /\ map_width' = m.map_width
               /\ map_tileheight' = m.map_tileheight
               /\ map_tilewidth' = m.map_tilewidth
               /\ UNCHANGED <<pc, tilesets, layers, layerVars, at_eof, panic, result>>

\* The value of the attribute key in a list, None when the list has no
\* such attribute.
RECURSIVE AttrValue(_, _)
AttrValue(attrs, k) ==
  IF attrs = <<>> THEN None
  ELSE IF ~Head(attrs).err /\ Head(attrs).key = k THEN Some(Head(attrs).value)
  ELSE AttrValue(Tail(attrs), k)

\* What a "tileset" element declares: Some([first_gid, source]) when it
\* carries a numeric firstgid and a source.
DeclaredRef(attrs) ==
  LET g == AttrValue(attrs, "firstgid")
      src == AttrValue(attrs, "source")
  IN IF g = None \/ src = None THEN None
     ELSE IF FromUtf8(Unwrap(g)) = None \/ ParseU32(Unwrap(g)) = None THEN None
     ELSE Some([first_gid |-> Unwrap(ParseU32(Unwrap(g))), source |-> Unwrap(src)])

\* The attribute loop of the "tileset" arm (lines 90-104) on the locals
\* m = [panic, first_gid, source].  The arms are tried in order: the arm at
\* line 98 repeats the pattern b"firstgid" of the arm at line 93.
RECURSIVE TilesetAttrLoop(_, _)
TilesetAttrLoop(attrs, m) ==
  IF attrs = <<>> \/ m.panic # None THEN m
  ELSE LET a == Head(attrs)
       IN TilesetAttrLoop(Tail(attrs),
            IF a.err THEN [m EXCEPT !.panic = Some(PanicAt(91, UnwrapErrMsg))]
            ELSE IF a.key = "firstgid" THEN SetU32(m, "first_gid", a, 94, 95)
            ELSE IF a.key = "firstgid" THEN SetString(m, "source", a, 99)
            ELSE m)

\* Ok(Event::Start) of "tileset" (lines 87-109).
TilesetStart(attrs) ==
  /\ pc = "outer" /\ ~at_eof
  /\ Delivers(Event("TilesetStart", attrs))
  /\ handled' = Some([kind |-> "tileset", attrs |-> attrs])
  /\ declared' = (IF DeclaredRef(attrs) = None THEN declared
                   ELSE Append(declared, Unwrap(DeclaredRef(attrs))))
  /\ LET m == TilesetAttrLoop(attrs,
                  [panic |-> None, first_gid |-> None, source |-> None])
       IN IF m.panic # None THEN Panics(Unwrap(m.panic))
          ELSE IF m.first_gid = None THEN Panics(PanicAt(106, UnwrapNoneMsg))
          ELSE IF m.source = None THEN Panics(PanicAt(107, UnwrapNoneMsg))
          ELSE /\ Len(tilesets) < MaxTilesets
               /\ tilesets' = Append(tilesets,
                    [first_gid |-> Unwrap(m.first_gid), source |-> Unwrap(m.source)])
               /\ UNCHANGED <<pc, mapVars, layers, layerVars, at_eof, panic, result>>

\* `visible = str.parse::<bool>().unwrap()` (lines 129-130).
SetBool(m, field, a, utf8Line, parseLine) ==
  IF FromUtf8(a.value) = None
    THEN [m EXCEPT !.panic = Some(PanicAt(utf8Line, UnwrapErrMsg))]
  ELSE IF ParseBool(Unwrap(FromUtf8(a.value))) = None
    THEN [m EXCEPT !.panic = Some(PanicAt(parseLine, UnwrapErrMsg))]
  ELSE [m EXCEPT ![field] = Unwrap(ParseBool(Unwrap(FromUtf8(a.value))))]

\* The attribute loop of the "layer" arm (lines 113-134) on the locals
\* m = [panic, name, visible].
RECURSIVE LayerAttrLoop(_, _)
LayerAttrLoop(attrs, m) ==
  IF attrs = <<>> \/ m.panic # None THEN m
  ELSE LET a == Head(attrs)
       IN LayerAttrLoop(Tail(attrs),
            IF a.err THEN [m EXCEPT !.panic = Some(PanicAt(114, UnwrapErrMsg))]
            ELSE IF a.key = "name" THEN SetString(m, "name", a, 117)
            ELSE IF a.key = "visible" THEN SetBool(m, "visible", a, 129, 130)
            ELSE m)

\* A variant of the "layer" arm that opens a layer with the encoding and the
\* flag that the data element of a previous layer had set.
LayerStartNotReset(attrs) ==
  /\ pc = "outer" /\ ~at_eof
  /\ Delivers(Event("LayerStart", attrs))
  /\ handled' = None
  /\ UNCHANGED declared
  /\ LET m == LayerAttrLoop(attrs, [panic |-> None, name |-> None, visible |-> TRUE])
       IN IF m.panic # None THEN Panics(Unwrap(m.panic))
          ELSE IF m.name = None THEN Panics(PanicAt(136, "name not set on layer"))
          ELSE IF map_width = None THEN Panics(PanicAt(137, UnwrapNoneMsg))
          ELSE IF map_height = None THEN Panics(PanicAt(138, UnwrapNoneMsg))
          ELSE /\ pc' = "inner"
               /\ name' = m.name
               /\ visible' = m.visible
               /\ width' = map_width
               /\ height' = map_height
               /\ encoding' = Some(Base64Name)
               /\ state_is_in_data' = TRUE
               /\ open_data' = 0
               /\ UNCHANGED <<mapVars, tilesets, layers, at_eof, panic, result>>

\* Ok(Event::Start) of "layer", up to the entry of the inner loop
\* (lines 110-142).
LayerStart(attrs) ==
  /\ pc = "outer" /\ ~at_eof
  /\ Delivers(Event("LayerStart", attrs))
  /\ handled' = None
  /\ UNCHANGED declared
  /\ LET m == LayerAttrLoop(attrs, [panic |-> None, name |-> None, visible |-> TRUE])
       IN IF m.panic # None THEN Panics(Unwrap(m.panic))
          ELSE IF m.name = None THEN Panics(PanicAt(136, "name not set on layer"))
          ELSE IF map_width = None THEN Panics(PanicAt(137, UnwrapNoneMsg))
          ELSE IF map_height = None THEN Panics(PanicAt(138, UnwrapNoneMsg))
          ELSE /\ pc' = "inner"
               /\ name' = m.name
               /\ visible' = m.visible
               /\ width' = map_width
               /\ height' = map_height
               /\ encoding' = None
               /\ state_is_in_data' = FALSE
               /\ open_data' = 0
               /\ UNCHANGED <<mapVars, tilesets, layers, at_eof, panic, result>>

\* Ok(Event::Start) of any other element (line 211), and every event the
\* outer match sends to `_ => ()` (line 215): End, Text, Empty, Comment,
\* CData, Decl, PI, DocType.  Nothing changes.
OuterIgnored ==
  /\ pc = "outer" /\ ~at_eof
  /\ Delivers(Event("OuterIgnored", <<>>))
  /\ handled' = None
  /\ UNCHANGED declared
  /\ UNCHANGED decoderVars

\* Err(e) (line 214).
OuterErr ==
  /\ pc = "outer" /\ ~at_eof
  /\ Delivers(Event("OuterErr", <<>>))
  /\ handled' = None
  /\ UNCHANGED declared
  /\ Panics(PanicAt(214, "Error at position"))

\* An assembly that takes the tile width for a tile height that was never
\* set, which from_bytes does not do.
AssembleLenient ==
  IF map_width = None THEN [panic |-> Some(PanicAt(223, "map width must be set")), map |-> None]
  ELSE IF map_height = None THEN [panic |-> Some(PanicAt(224, "map height must be set")), map |-> None]
  ELSE IF map_tilewidth = None
    THEN [panic |-> Some(PanicAt(225, "map tile width must me set")), map |-> None]
  ELSE [panic |-> None,
        map |-> Some([width |-> Unwrap(map_width), height |-> Unwrap(map_height),
                      tile_width |-> Unwrap(map_tilewidth),
                      tile_height |-> IF map_tileheight = None THEN Unwrap(map_tilewidth)
                                      ELSE Unwrap(map_tileheight),
                      layers |-> layers, tilesets |-> tilesets])]

\* The value built at lines 222-229, or the panic of the first expect that
\* meets a None.
Assemble ==
  IF map_width = None THEN [panic |-> Some(PanicAt(223, "map width must be set")), map |-> None]
  ELSE IF map_height = None THEN [panic |-> Some(PanicAt(224, "map height must be set")), map |-> None]
  ELSE IF map_tilewidth = None
    THEN [panic |-> Some(PanicAt(225, "map tile width must me set")), map |-> None]
  ELSE IF map_tileheight = None
    THEN [panic |-> Some(PanicAt(226, "map tile height must me set")), map |-> None]
  ELSE [panic |-> None,
        map |-> Some([width |-> Unwrap(map_width), height |-> Unwrap(map_height),
                      tile_width |-> Unwrap(map_tilewidth),
                      tile_height |-> Unwrap(map_tileheight),
                      layers |-> layers, tilesets |-> tilesets])]

\* An end of document that hands out the layers and tileset references read
\* so far when the assembly fails, which from_bytes does not do.
OuterEofPartial ==
  /\ pc = "outer" /\ ~at_eof
  /\ Delivers(Event("OuterEof", <<>>))
  /\ handled' = None
  /\ UNCHANGED declared
  /\ at_eof' = TRUE
  /\ pc' = "returned"
  /\ panic' = None
  /\ result' = (IF Assemble.panic = None THEN Assemble.map
                 ELSE Some([width |-> 0, height |-> 0, tile_width |-> 0, tile_height |-> 0,
                            layers |-> layers, tilesets |-> tilesets]))
  /\ map_width' = None /\ map_height' = None
  /\ map_tilewidth' = None /\ map_tileheight' = None
  /\ tilesets' = <<>> /\ layers' = <<>>
  /\ UNCHANGED layerVars

\* Ok(Event::Eof) => break (line 213), then the assembly (lines 222-229):
\* the locals are moved into the value returned, or dropped by the panic.
OuterEof ==
  /\ pc = "outer" /\ ~at_eof
  /\ Delivers(Event("OuterEof", <<>>))
  /\ handled' = None
  /\ UNCHANGED declared
  /\ at_eof' = TRUE
  /\ pc' = (IF Assemble.panic = None THEN "returned" ELSE "panicked")
  /\ panic' = Assemble.panic
  /\ result' = Assemble.map
  /\ map_width' = None /\ map_height' = None
  /\ map_tilewidth' = None /\ map_tileheight' = None
  /\ tilesets' = <<>> /\ layers' = <<>>
  /\ UNCHANGED layerVars

\* ------------------------------------------------------------------------
\* The inner loop (line 143), entered by the "layer" arm.  The reader
\* checks end names: it delivers End of "data" only while a "data" element
\* is open, after every element opened inside it was closed; the closing
\* of those elements changes nothing (line 162-168, neither branch).  An
\* End of "layer" closes the layer itself or a "layer" element opened
\* inside it, at any depth.  At most MaxDepth "data" elements are open at
\* a time.

\* The attribute loop of the "data" arm (lines 148-158) on the locals
\* m = [panic, encoding].
RECURSIVE DataAttrLoop(_, _)
DataAttrLoop(attrs, m) ==
  IF attrs = <<>> \/ m.panic # None THEN m
  ELSE LET a == Head(attrs)
       IN DataAttrLoop(Tail(attrs),
            IF a.err THEN [m EXCEPT !.panic = Some(PanicAt(149, "data to have attributes"))]
            ELSE IF a.key = "encoding" THEN SetString(m, "encoding", a, 153)
            ELSE m)

\* Ok(Event::Start) of "data" (lines 146-159).
DataStart(attrs) ==
  /\ pc = "inner" /\ ~at_eof
  /\ Delivers(Event("DataStart", attrs))
  /\ handled' = None
  /\ UNCHANGED declared
  /\ open_data < MaxDepth
  /\ LET m == DataAttrLoop(attrs, [panic |-> None, encoding |-> encoding])
       IN IF m.panic # None THEN Panics(Unwrap(m.panic))
          ELSE /\ state_is_in_data' = TRUE
               /\ encoding' = m.encoding
               /\ open_data' = open_data + 1
               /\ UNCHANGED <<pc, mapVars, tilesets, layers, name, visible, width,
                              height, at_eof, panic, result>>

\* A variant of the inner Start arm that hands a nested "map" element to the
\* arm of the outer loop, which sets the width of the map.
InnerStartDispatched ==
  /\ pc = "inner" /\ ~at_eof
  /\ Delivers(Event("InnerOtherStart", <<>>))
  /\ handled' = None
  /\ UNCHANGED declared
  /\ map_width' = Some(2)
  /\ UNCHANGED <<pc, map_height, map_tilewidth, map_tileheight, tilesets,
                 layers, layerVars, at_eof, panic, result>>

\* Ok(Event::Start) of any other element (line 160), "layer", "map" and
\* "tileset" among them.
InnerOtherStart ==
  /\ pc = "inner" /\ ~at_eof
  /\ Delivers(Event("InnerOtherStart", <<>>))
  /\ handled' = None
  /\ UNCHANGED declared
  /\ UNCHANGED decoderVars

\* Ok(Event::End) of "data" (lines 163-164).
DataEnd ==
  /\ pc = "inner" /\ ~at_eof
  /\ Delivers(Event("DataEnd", <<>>))
  /\ handled' = None
  /\ UNCHANGED declared
  /\ open_data > 0
  /\ state_is_in_data' = FALSE
  /\ open_data' = open_data - 1
  /\ UNCHANGED <<pc, mapVars, tilesets, layers, name, visible, width, height,
                 encoding, at_eof, panic, result>>

\* Ok(Event::End) of "layer" => break (lines 165-166).  The locals of the
\* "layer" arm go out of scope.
LayerEnd ==
  /\ pc = "inner" /\ ~at_eof
  /\ Delivers(Event("LayerEnd", <<>>))
  /\ handled' = None
  /\ UNCHANGED declared
  /\ pc' = "outer"
  /\ NoLayerLocals
  /\ UNCHANGED <<mapVars, tilesets, layers, at_eof, panic, result>>

\* Ok(Event::End) of any other element (lines 162-168, neither branch).
InnerOtherEnd ==
  /\ pc = "inner" /\ ~at_eof
  /\ Delivers(Event("InnerOtherEnd", <<>>))
  /\ handled' = None
  /\ UNCHANGED declared
  /\ UNCHANGED decoderVars

\* (width * height) at lines 184 and 186: the product when it fits a u32;
\* otherwise a panic in a build with overflow checks and the product modulo
\* 2^32 in a build without.
TileCounts(w, h) ==
  IF MulU32(w, h).overflow
  THEN {[panic |-> Some(PanicAt(184, "attempt to multiply with overflow")), count |-> 0],
        [panic |-> None, count |-> MulU32(w, h).wrapped]}
  ELSE {[panic |-> None, count |-> MulU32(w, h).wrapped]}

\* The "base64" arm (lines 173-197) on a text, for a tile count: the panic it
\* ends in, or the tiles of the layer it pushes.
DecodeLayerData(text, count) ==
  LET str == UnescapeAndDecode(text)
      bytes == IF str = None THEN None ELSE Base64Decode(Unwrap(str))
      data == IF bytes = None THEN None ELSE ReadTiles(Unwrap(bytes), count)
  IN IF str = None THEN [panic |-> Some(PanicAt(178, UnwrapErrMsg)), tiles |-> <<>>]
     ELSE IF bytes = None
       THEN [panic |-> Some(PanicAt(181, "malformed layer data")), tiles |-> <<>>]
     ELSE IF data = None THEN [panic |-> Some(PanicAt(188, UnwrapErrMsg)), tiles |-> <<>>]
     ELSE [panic |-> None, tiles |-> Unwrap(data)]

\* Ok(Event::Text) while state_is_in_data is false (lines 169-170, the
\* guard fails): nothing changes.
InnerTextOutsideData ==
  /\ pc = "inner" /\ ~at_eof
  /\ Delivers(Event("InnerTextOutsideData", <<>>))
  /\ ~state_is_in_data
  /\ handled' = None
  /\ UNCHANGED declared
  /\ UNCHANGED decoderVars

\* Ok(Event::Text) while state_is_in_data is true (lines 169-206).
InnerText(text) ==
  /\ pc = "inner" /\ ~at_eof
  /\ Delivers(Event("InnerText", text))
  /\ state_is_in_data
  /\ handled' = (IF encoding = Some(Base64Name)
                 THEN Some([kind |-> "text", text |-> text,
                            width |-> Unwrap(width), height |-> Unwrap(height)])
                 ELSE None)
  /\ UNCHANGED declared
  /\ IF encoding = None
       THEN Panics(PanicAt(203, "layer data must have a set encoding"))
     ELSE IF Unwrap(encoding) # Base64Name
       THEN Panics(PanicAt(199, "layer data must be encoded with base64"))
     ELSE \E c \in TileCounts(Unwrap(width), Unwrap(height)) :
            LET d == DecodeLayerData(text, c.count)
            IN IF c.panic # None THEN Panics(Unwrap(c.panic))
               ELSE IF d.panic # None THEN Panics(Unwrap(d.panic))
               ELSE /\ Len(layers) < MaxLayers
                    /\ layers' = Append(layers,
                         [name |-> Unwrap(name), visible |-> visible, tiles |-> d.tiles])
                    /\ UNCHANGED <<pc, mapVars, tilesets, layerVars, at_eof,
                                   panic, result>>

\* Ok(Event::Eof) in the inner loop falls to `_ => {}` (line 207); the
\* reader delivers Eof again on every later read.
InnerEof ==
  /\ pc = "inner"
  /\ Delivers(Event("InnerEof", <<>>))
  /\ handled' = None
  /\ UNCHANGED declared
  /\ at_eof' = TRUE
  /\ UNCHANGED <<pc, mapVars, tilesets, layers, layerVars, panic, result>>

\* Err(e) in the inner loop falls to `_ => {}` (line 207).
InnerErr ==
  /\ pc = "inner" /\ ~at_eof
  /\ Delivers(Event("InnerErr", <<>>))
  /\ handled' = None
  /\ UNCHANGED declared
  /\ UNCHANGED decoderVars

\* Empty, Comment, CData, Decl, PI, DocType in the inner loop (line 207).
InnerIgnored ==
  /\ pc = "inner" /\ ~at_eof
  /\ Delivers(Event("InnerIgnored", <<>>))
  /\ handled' = None
  /\ UNCHANGED declared
  /\ UNCHANGED decoderVars

Next ==
  \/ \E attrs \in MapAttrs : MapStart(attrs)
  \/ \E attrs \in TilesetAttrs : TilesetStart(attrs)
  \/ \E attrs \in LayerAttrs : LayerStart(attrs)
  \/ OuterIgnored
  \/ OuterErr
  \/ OuterEof
  \/ \E attrs \in DataAttrs : DataStart(attrs)
  \/ InnerOtherStart
  \/ DataEnd
  \/ LayerEnd
  \/ InnerOtherEnd
  \/ InnerTextOutsideData
  \/ \E text \in PayloadTexts : InnerText(text)
  \/ InnerEof
  \/ InnerErr
  \/ InnerIgnored

Spec == Init /\ [][Next]_vars

\* ------------------------------------------------------------------------
\* Two calls of from_bytes on the same bytes, one after the other.

\* The locals of a call that held the layers of the call before it, which
\* from_bytes does not do.
FreshLocalsKeepingLayers ==
  /\ pc' = "outer"
  /\ map_width' = None /\ map_height' = None
  /\ map_tilewidth' = None /\ map_tileheight' = None
  /\ tilesets' = <<>>
  /\ layers' = (IF result = None THEN <<>> ELSE Unwrap(result).layers)
  /\ NoLayerLocals
  /\ at_eof' = FALSE
  /\ panic' = None
  /\ result' = None

\* A call builds its reader on the bytes it is given and declares its
\* locals anew (lines 45-57): nothing of an earlier call is read.
FreshLocals ==
  /\ pc' = "outer"
  /\ map_width' = None /\ map_height' = None
  /\ map_tilewidth' = None /\ map_tileheight' = None
  /\ tilesets' = <<>> /\ layers' = <<>>
  /\ NoLayerLocals
  /\ at_eof' = FALSE
  /\ panic' = None
  /\ result' = None

\* The first call has ended: from_bytes is called again on the same bytes.
CallAgain ==
  /\ reader = "recording"
  /\ pc \in {"returned", "panicked"}
  /\ reader' = "replaying"
  /\ first' = Some([pc |-> pc, panic |-> panic, result |-> result])
  /\ UNCHANGED doc
  /\ FreshLocals
  /\ handled' = None
  /\ declared' = <<>>

InitTwice ==
  /\ Entry
  /\ reader = "recording" /\ doc = <<>> /\ first = None

NextTwice == Next \/ CallAgain

SpecTwice == InitTwice /\ [][NextTwice]_vars

\* ------------------------------------------------------------------------
\* TiledTileset::from_bytes (lines 234-415), on the recorded events of a
\* tileset document.  The function is a copy of TiledMap::from_bytes: its
\* "tileset" arm stores into map_height, map_width, map_tileheight and
\* map_tilewidth, which it does not declare, and its assembly reads
\* tile_width, tile_height and tile_count, which it does not declare
\* either.  The locals it declares, width, height and timecount (lines
\* 240-242), are assigned nowhere, and images (line 238) is pushed to
\* nowhere.  The documents of this specification hold no "layer" element
\* (the arm of lines 297-397 is the inner loop above).

\* The attributes of the root element and of an "image" element.
TilesetRootAttrs ==
  {OptAttr("tilewidth", tw) \o OptAttr("tileheight", th) \o OptAttr("tilecount", tc) :
     tw \in Opt(TileDimTexts), th \in Opt({<<"1", "6">>}), tc \in Opt({<<"4">>})}
  \cup {<<ErrAttr>>}

ImageAttrs ==
  {OptAttr("source", src) \o OptAttr("width", w) \o OptAttr("height", h) :
     src \in Opt({<<"a", ".", "p", "n", "g">>}),
     w \in Opt({<<"3", "2">>, <<"x">>}), h \in Opt({<<"3", "2">>})}

\* `let mut images = Vec::new()` (line 238) and `let mut timecount = None`
\* (line 242): no statement of the function changes either.
images == <<>>
timecount == None

\* The attribute loop of the first "tileset" arm (lines 251-272) on the
\* locals m = [panic, map_height, map_width, map_tileheight, map_tilewidth].
\* No arm reads "tilecount".
RECURSIVE TilesetRootAttrLoop(_, _)
TilesetRootAttrLoop(attrs, m) ==
  IF attrs = <<>> \/ m.panic # None THEN m
  ELSE LET a == Head(attrs)
       IN TilesetRootAttrLoop(Tail(attrs),
            IF a.err THEN [m EXCEPT !.panic = Some(PanicAt(252, UnwrapErrMsg))]
            ELSE IF a.key = "height" THEN SetU32(m, "map_height", a, 255, 256)
            ELSE IF a.key = "width" THEN SetU32(m, "map_width", a, 259, 260)
            ELSE IF a.key = "tileheight" THEN SetU32(m, "map_tileheight", a, 263, 264)
            ELSE IF a.key = "tilewidth" THEN SetU32(m, "map_tilewidth", a, 267, 268)
            ELSE m)

\* Ok(Event::Start) of "tileset" (lines 250-273; the second "tileset" arm,
\* lines 274-296, is shadowed by the first).
TilesetRootStart(attrs) ==
  /\ reader = "tileset" /\ pc = "outer" /\ ~at_eof
  /\ Len(doc) < MaxTilesetDoc
  /\ doc' = Append(doc, Event("TilesetRootStart", attrs))
  /\ UNCHANGED <<reader, first>>
  /\ handled' = None
  /\ UNCHANGED declared
  /\ LET m == TilesetRootAttrLoop(attrs,
                  [panic |-> None, map_height |-> map_height, map_width |-> map_width,
                   map_tileheight |-> map_tileheight, map_tilewidth |-> map_tilewidth])
       IN IF m.panic # None THEN Panics(Unwrap(m.panic))
          ELSE /\ map_height' = m.map_height
               /\ map_width' = m.map_width
               /\ map_tileheight' = m.map_tileheight
               /\ map_tilewidth' = m.map_tilewidth
               /\ UNCHANGED <<pc, tilesets, layers, layerVars, at_eof, panic, result>>

\* Ok(Event::Start) of "image" falls to `_ => ()` (line 398); an "image"
\* element written as an empty element falls to `_ => ()` (line 402).
ImageStart(attrs) ==
  /\ reader = "tileset" /\ pc = "outer" /\ ~at_eof
  /\ Len(doc) < MaxTilesetDoc
  /\ doc' = Append(doc, Event("ImageStart", attrs))
  /\ UNCHANGED <<reader, first>>
  /\ handled' = None
  /\ UNCHANGED declared
  /\ UNCHANGED decoderVars

\* Every other event the outer match ignores (lines 398 and 402).
TilesetIgnored ==
  /\ reader = "tileset" /\ pc = "outer" /\ ~at_eof
  /\ Len(doc) < MaxTilesetDoc
  /\ doc' = Append(doc, Event("TilesetIgnored", <<>>))
  /\ UNCHANGED <<reader, first>>
  /\ handled' = None
  /\ UNCHANGED declared
  /\ UNCHANGED decoderVars

\* Err(e) (line 401).
TilesetErr ==
  /\ reader = "tileset" /\ pc = "outer" /\ ~at_eof
  /\ Len(doc) < MaxTilesetDoc
  /\ doc' = Append(doc, Event("TilesetErr", <<>>))
  /\ UNCHANGED <<reader, first>>
  /\ handled' = None
  /\ UNCHANGED declared
  /\ Panics(PanicAt(401, "Error at position"))

\* The names tile_width and tile_height of the assembly denote either the
\* locals declared and never assigned (width and height of lines 240-241)
\* or the values the "tileset" arm stored (lines 264 and 268).
TileSizeReadings == {"declared", "stored"}

\* The value built at lines 409-414 under a reading, or the panic of the
\* first expect that meets a None.  tile_count is timecount under both.
TilesetAssemble(reading) ==
  LET tile_width == IF reading = "stored" THEN map_tilewidth ELSE None
      tile_height == IF reading = "stored" THEN map_tileheight ELSE None
      tile_count == timecount
  IN IF tile_width = None
       THEN [panic |-> Some(PanicAt(410, "tile width must me set")), tileset |-> None]
     ELSE IF tile_height = None
       THEN [panic |-> Some(PanicAt(411, "tile height must me set")), tileset |-> None]
     ELSE IF tile_count = None
       THEN [panic |-> Some(PanicAt(412, "tile count must be set")), tileset |-> None]
     ELSE [panic |-> None,
           tileset |-> Some([tile_width |-> Unwrap(tile_width),
                             tile_height |-> Unwrap(tile_height),
                             tile_count |-> Unwrap(tile_count),
                             images |-> images])]

\* Ok(Event::Eof) => break (line 400), then the assembly (lines 409-414).
TilesetEof ==
  /\ reader = "tileset" /\ pc = "outer" /\ ~at_eof
  /\ doc' = Append(doc, Event("TilesetEof", <<>>))
  /\ UNCHANGED <<reader, first>>
  /\ handled' = None
  /\ UNCHANGED declared
  /\ at_eof' = TRUE
  /\ \E reading \in TileSizeReadings :
       /\ pc' = (IF TilesetAssemble(reading).panic = None THEN "returned" ELSE "panicked")
       /\ panic' = TilesetAssemble(reading).panic
       /\ result' = TilesetAssemble(reading).tileset
  /\ map_width' = None /\ map_height' = None
  /\ map_tilewidth' = None /\ map_tileheight' = None
  /\ UNCHANGED <<tilesets, layers, layerVars>>

\* The locals of TiledTileset::from_bytes once the reader is built (lines
\* 235-244).  The documents read here hold the root element and its
\* children; they hold no "layer" element, whose arm (lines 297-397) is the
\* copy of the arm of TiledMap::from_bytes.
InitTileset ==
  /\ Entry
  /\ reader = "tileset" /\ doc = <<>> /\ first = None

NextTileset ==
  \/ \E attrs \in TilesetRootAttrs : TilesetRootStart(attrs)
  \/ \E attrs \in ImageAttrs : ImageStart(attrs)
  \/ TilesetIgnored
  \/ TilesetErr
  \/ TilesetEof

SpecTileset == InitTileset /\ [][NextTileset]_vars

\* ------------------------------------------------------------------------
\* Properties.

\* The step just taken handled a text in the "base64" arm.
\* Whether width * height is a u32, and the product when it is.
Fits(w, h) == ~MulU32(w, h).overflow

Product(w, h) == MulU32(w, h).wrapped

TextHandled == handled # None /\ Unwrap(handled).kind = "text"

\* The step just taken opened a "tileset" element.
TilesetHandled == handled # None /\ Unwrap(handled).kind = "tileset"

\* The bytes a payload text decodes to, None when it does not decode.
PayloadBytes(text) ==
  IF UnescapeAndDecode(text) = None THEN None
  ELSE Base64Decode(Unwrap(UnescapeAndDecode(text)))

LastLayer == layers[Len(layers)]

\* C1: whatever the events of the document, the call ends with a map or
\* with an error value; it never panics.
NeverPanics == pc # "panicked"

\* C2: decoding is all-or-nothing.  A call that fails hands out no map; a
\* map is handed out only by the step that reads the end of the document
\* in the outer loop, with the four dimensions set, and it holds exactly
\* the layers and tileset references accumulated; a layer is accumulated
\* only whole, with the number of tiles that the loop of the layer being
\* read counts.
AllOrNothing ==
  [][/\ (pc' = "panicked" => result' = None)
     /\ ((result = None /\ result' # None) =>
           /\ pc = "outer" /\ pc' = "returned" /\ ~at_eof /\ at_eof'
           /\ map_width # None /\ map_height # None
           /\ map_tilewidth # None /\ map_tileheight # None
           /\ Unwrap(result') =
                [width |-> Unwrap(map_width), height |-> Unwrap(map_height),
                 tile_width |-> Unwrap(map_tilewidth),
                 tile_height |-> Unwrap(map_tileheight),
                 layers |-> layers, tilesets |-> tilesets])
     /\ (layers' # layers =>
           \/ layers' = <<>> /\ pc' \in {"returned", "panicked"}
           \/ /\ pc = "inner" /\ pc' = "inner"
              /\ Len(layers') = Len(layers) + 1
              /\ SubSeq(layers', 1, Len(layers)) = layers
              /\ \E c \in TileCounts(Unwrap(width), Unwrap(height)) :
                   c.panic = None /\ Len(layers'[Len(layers')].tiles) = c.count)
    ]_vars

\* A map with a layer has been returned.
MapWithLayerReturned ==
  pc = "returned" /\ result # None /\ Unwrap(result).layers # <<>>

\* C3: every layer of a returned map has width * height tiles, for the
\* width and height of that map (stated for a width and a height whose
\* product is a u32).
LayerSizesMatchMap ==
  (result # None /\ Fits(Unwrap(result).width, Unwrap(result).height)) =>
    \A i \in 1..Len(Unwrap(result).layers) :
      Len(Unwrap(result).layers[i].tiles) =
        Product(Unwrap(result).width, Unwrap(result).height)

\* C4: a payload is accepted (the text arm does not fail) only when it
\* decodes to exactly 4 * width * height bytes (stated for a width and a
\* height whose product is a u32).
PayloadSizeExact ==
  (/\ TextHandled /\ pc # "panicked"
   /\ Fits(Unwrap(handled).width, Unwrap(handled).height)) =>
    /\ PayloadBytes(Unwrap(handled).text) # None
    /\ Len(Unwrap(PayloadBytes(Unwrap(handled).text))) =
         WordBytes * Product(Unwrap(handled).width, Unwrap(handled).height)

\* C5: a document with a "data" element that declares an encoding other
\* than "base64", or declares none, never decodes to a map.
UnsupportedEncodingFails ==
  (/\ reader = "recording"
   /\ \E i \in 1..Len(doc) :
        /\ doc[i].kind = "DataStart"
        /\ doc[i].arg # <<Attr("encoding", Base64Name)>>) =>
    result = None

\* The attributes a "map" element does not carry stay unset, and opening
\* the element fails on none of them: a list of readable attributes sets
\* exactly the locals of the attributes it holds.
AbsentMapAttributesStayUnset ==
  \A attrs \in MapAttrs :
    (\A i \in 1..Len(attrs) : ~attrs[i].err /\ ParseU32(attrs[i].value) # None) =>
      LET m == MapAttrLoop(attrs,
                 [panic |-> None, map_height |-> None, map_width |-> None,
                  map_tileheight |-> None, map_tilewidth |-> None])
      IN /\ m.panic = None
         /\ (m.map_width = None) = (AttrValue(attrs, "width") = None)
         /\ (m.map_height = None) = (AttrValue(attrs, "height") = None)
         /\ (m.map_tilewidth = None) = (AttrValue(attrs, "tilewidth") = None)
         /\ (m.map_tileheight = None) = (AttrValue(attrs, "tileheight") = None)

LittleEndianTiles ==
  (/\ TextHandled /\ PayloadBytes(Unwrap(handled).text) # None
   /\ Fits(Unwrap(handled).width, Unwrap(handled).height)) =>
    LET n == Product(Unwrap(handled).width, Unwrap(handled).height)
        b == Unwrap(PayloadBytes(Unwrap(handled).text))
    IN Len(b) = 4 * n =>
         /\ pc = "inner" /\ layers # <<>>
         /\ Len(LastLayer.tiles) = n
         /\ \A i \in 0..(n - 1) :
              LastLayer.tiles[i + 1] =
                b[4 * i + 1] + 256 * b[4 * i + 2] + 65536 * b[4 * i + 3]
                  + 16777216 * b[4 * i + 4]

\* The bytes of 1, 2, 3, 4 were read for a map 2 wide and 2 high, and the
\* layer holds 1, 2, 3, 4.
TwoByTwoDecoded ==
  /\ TextHandled
  /\ Unwrap(handled).width = 2 /\ Unwrap(handled).height = 2
  /\ PayloadBytes(Unwrap(handled).text) =
       Some(<<1, 0, 0, 0, 2, 0, 0, 0, 3, 0, 0, 0, 4, 0, 0, 0>>)
  /\ layers # <<>> /\ LastLayer.tiles = <<1, 2, 3, 4>>

\* The tile sequences encoded and decoded back.
RoundTripTiles == {Run(1, n) : n \in 0..MaxTiles} \cup SampleTiles

\* C8: the text that encodes a tile sequence t of width * height tiles as
\* little-endian words, then base64, is decoded to a layer whose tiles are t.
RoundTrip ==
  TextHandled =>
    \A t \in RoundTripTiles :
      (/\ Fits(Unwrap(handled).width, Unwrap(handled).height)
       /\ Len(t) = Product(Unwrap(handled).width, Unwrap(handled).height)
       /\ Unwrap(handled).text = Base64Encode(EncodeTiles(t))) =>
        /\ pc = "inner" /\ layers # <<>>
        /\ LastLayer.tiles = t

\* The encoding of a tile of four different bytes was decoded back to it.
SampleRoundTripped ==
  /\ TextHandled
  /\ \E t \in SampleTiles :
       /\ Fits(Unwrap(handled).width, Unwrap(handled).height)
       /\ Len(t) = Product(Unwrap(handled).width, Unwrap(handled).height)
       /\ Unwrap(handled).text = Base64Encode(EncodeTiles(t))
       /\ layers # <<>> /\ LastLayer.tiles = t

TilesetRefsCollected ==
  /\ (TilesetHandled /\ DeclaredRef(Unwrap(handled).attrs) # None) => pc # "panicked"
  /\ result # None => Unwrap(result).tilesets = declared

\* The events of the recorded tileset document that open an "image" element.
RECURSIVE ImageEvents(_)
ImageEvents(d) ==
  IF d = <<>> THEN <<>>
  ELSE IF Head(d).kind = "ImageStart" THEN <<Head(d).arg>> \o ImageEvents(Tail(d))
  ELSE ImageEvents(Tail(d))

\* The attribute list carries the attribute k with a numeric value.
HasNumeric(attrs, k) ==
  AttrValue(attrs, k) # None /\ ParseU32(Unwrap(AttrValue(attrs, k))) # None

\* The recorded tileset document is read to its end; it opens with a root
\* that carries numeric tilewidth, tileheight and tilecount, and goes on
\* with "image" elements that each carry source and numeric width and height.
TilesetDocumentRead ==
  /\ reader = "tileset" /\ at_eof
  /\ Len(doc) >= 2
  /\ doc[1].kind = "TilesetRootStart"
  /\ HasNumeric(doc[1].arg, "tilewidth")
  /\ HasNumeric(doc[1].arg, "tileheight")
  /\ HasNumeric(doc[1].arg, "tilecount")
  /\ \A i \in 2..(Len(doc) - 1) :
       /\ doc[i].kind = "ImageStart"
       /\ AttrValue(doc[i].arg, "source") # None
       /\ HasNumeric(doc[i].arg, "width")
       /\ HasNumeric(doc[i].arg, "height")

\* C11: a tileset document with n "image" children decodes to a tileset
\* whose images are the source, width and height of those n elements, in
\* document order.
TilesetImagesCollected ==
  (TilesetDocumentRead /\ ImageEvents(doc) # <<>>) =>
    /\ result # None
    /\ Len(Unwrap(result).images) = Len(ImageEvents(doc))
    /\ \A i \in 1..Len(ImageEvents(doc)) :
         /\ Some(Unwrap(result).images[i].source) = AttrValue(ImageEvents(doc)[i], "source")
         /\ Some(Unwrap(result).images[i].width) =
              ParseU32(Unwrap(AttrValue(ImageEvents(doc)[i], "width")))
         /\ Some(Unwrap(result).images[i].height) =
              ParseU32(Unwrap(AttrValue(ImageEvents(doc)[i], "height")))

\* C12: a tileset document whose root carries tilewidth, tileheight and
\* tilecount decodes to a tileset with those three values.
TilesetRootValuesReturned ==
  TilesetDocumentRead =>
    /\ pc = "returned" /\ result # None
    /\ Some(Unwrap(result).tile_width) = ParseU32(Unwrap(AttrValue(doc[1].arg, "tilewidth")))
    /\ Some(Unwrap(result).tile_height) = ParseU32(Unwrap(AttrValue(doc[1].arg, "tileheight")))
    /\ Some(Unwrap(result).tile_count) = ParseU32(Unwrap(AttrValue(doc[1].arg, "tilecount")))

\* C13: a "layer" element opened before the width and the height of the
\* map are set does not crash the call: the call never ends in the panic
\* of an unwrap of the unset width or height.
LayerBeforeDimensionsNoCrash ==
  ~(pc = "panicked" /\ Unwrap(panic) \in {PanicAt(137, UnwrapNoneMsg),
                                          PanicAt(138, UnwrapNoneMsg)})

\* C14: the call ends on every finite document: once the end of the
\* document is read the call has returned or failed, also when a "layer"
\* element is still open.
EndOfDocumentEndsCall == at_eof => pc \in {"returned", "panicked"}

\* The number of events of kind k in a recorded document.
RECURSIVE CountKind(_, _)
CountKind(d, k) ==
  IF d = <<>> THEN 0
  ELSE (IF Head(d).kind = k THEN 1 ELSE 0) + CountKind(Tail(d), k)

\* Whether a recorded document has a "layer" element closed with no text
\* read inside a data element; fed tells whether the element being read
\* has had one.
RECURSIVE PayloadlessLayer(_, _)
PayloadlessLayer(d, fed) ==
  IF d = <<>> THEN FALSE
  ELSE CASE Head(d).kind = "LayerStart" -> PayloadlessLayer(Tail(d), FALSE)
         [] Head(d).kind = "InnerText" -> PayloadlessLayer(Tail(d), TRUE)
         [] Head(d).kind = "LayerEnd" -> ~fed \/ PayloadlessLayer(Tail(d), FALSE)
         [] OTHER -> PayloadlessLayer(Tail(d), fed)

\* C15: a "layer" element closed without a payload read inside a data
\* element fails the call: no map is returned for a document with such an
\* element, so the element is neither dropped nor added empty.
PayloadlessLayerFails ==
  (reader = "recording" /\ PayloadlessLayer(doc, FALSE)) => pc # "returned"

\* The attribute lists of the "layer" elements of a recorded document.
RECURSIVE LayerEvents(_)
LayerEvents(d) ==
  IF d = <<>> THEN <<>>
  ELSE IF Head(d).kind = "LayerStart" THEN <<Head(d).arg>> \o LayerEvents(Tail(d))
  ELSE LayerEvents(Tail(d))

\* C16: a returned map has exactly one layer per "layer" element of the
\* document, in document order, with the name of the element and its
\* visible attribute, true when the element has none.
OneLayerPerElement ==
  (reader = "recording" /\ result # None) =>
    /\ Len(Unwrap(result).layers) = Len(LayerEvents(doc))
    /\ \A i \in 1..Len(LayerEvents(doc)) :
         /\ Some(Unwrap(result).layers[i].name) = AttrValue(LayerEvents(doc)[i], "name")
         /\ Unwrap(result).layers[i].visible =
              (IF AttrValue(LayerEvents(doc)[i], "visible") = None THEN TRUE
               ELSE Unwrap(ParseBool(Unwrap(AttrValue(LayerEvents(doc)[i], "visible")))))

\* C17: an error of the reader fails the call wherever it occurs: after an
\* Err event, inside a "layer" element or outside, the call has failed.
ReaderErrorFails ==
  (reader = "recording" /\ doc # <<>>
     /\ doc[Len(doc)].kind \in {"OuterErr", "InnerErr"}) =>
    pc = "panicked"

\* C18: the tile count of a layer is never a wrapped product: a payload is
\* accepted only for a width and a height whose product is a u32, and the
\* layer it is decoded to then has that many tiles.
NoWrappedTileCount ==
  (TextHandled /\ pc # "panicked") =>
    /\ Fits(Unwrap(handled).width, Unwrap(handled).height)
    /\ Len(LastLayer.tiles) = Product(Unwrap(handled).width, Unwrap(handled).height)

\* The decoder on documents that also declare a tile width of 0 or a layer
\* name that is empty: the same arms, on two more attribute lists.
ZeroTileMapStart == MapStart(ZeroTileMapAttrs)

EmptyNameLayerStart == LayerStart(EmptyNameLayerAttrs)

NextEdge == Next \/ ZeroTileMapStart \/ EmptyNameLayerStart

SpecEdge == Init /\ [][NextEdge]_vars

\* C19: the width, the height, the tile width and the tile height of a
\* returned map are all greater than 0.
DimensionsPositive ==
  result # None =>
    /\ Unwrap(result).width > 0 /\ Unwrap(result).height > 0
    /\ Unwrap(result).tile_width > 0 /\ Unwrap(result).tile_height > 0

\* C20: every layer of a returned map has a name that is not empty.
LayerNamesNonEmpty ==
  result # None =>
    \A i \in 1..Len(Unwrap(result).layers) : Unwrap(result).layers[i].name # <<>>

\* The event that the step being taken records, None when it records none.
Recorded ==
  IF reader = "recording" /\ reader' = "recording" /\ Len(doc') = Len(doc) + 1
    THEN Some(doc'[Len(doc')].kind)
  ELSE None

RECURSIVE LayerLocals(_, _)
LayerLocals(d, m) ==
  IF d = <<>> THEN m
  ELSE CASE Head(d).kind \in {"LayerStart", "LayerEnd"} ->
              LayerLocals(Tail(d), [encoding |-> None, flag |-> FALSE])
         [] Head(d).kind = "DataStart" ->
              LayerLocals(Tail(d),
                [encoding |-> IF AttrValue(Head(d).arg, "encoding") = None
                                THEN m.encoding
                              ELSE AttrValue(Head(d).arg, "encoding"),
                 flag |-> TRUE])
         [] Head(d).kind = "DataEnd" ->
              LayerLocals(Tail(d), [m EXCEPT !.flag = FALSE])
         [] OTHER -> LayerLocals(Tail(d), m)

====
